---- MODULE Spec2Model ----
(***************************************************************************)
(* Authentication and token lifecycle of the Books REST API:               *)
(* app/services/auth_services.py, app/services/user_services.py,           *)
(* app/core/security.py, app/core/redis.py and the routes that call them.  *)
(*                                                                         *)
(* Time is an integer clock `now` (the value of int(time.time()), in model *)
(* units of half a refresh-token lifetime, 3.5 days).  A JWT is the record *)
(* of its claims; only tokens the server signed (the set `issued`) decode. *)
(* The Redis store is two maps whose entries carry their expiry.  Every    *)
(* Redis command of a handler succeeds or raises ConnectionError, chosen   *)
(* per command.  A handler is one action; what it answers is the value of  *)
(* its ...Response operator in the state it is called in, and a call that  *)
(* raises leaves every variable as it was.                                 *)
(***************************************************************************)
EXTENDS Integers, FiniteSets, Sequences, Bags, TLC

\* ------------------------------------------------------------------ bounds
MaxUsers == 2
MaxPairs == 2
MaxTime == 4
MaxInflight == 2
MaxAccessTTL == 4
MaxRacePairs == 3
MaxBooks == 2
MaxReviews == 2
\* settings.ACCESS_TOKEN_EXPIRE_MINUTES has no default: any configured value
AccessTTL == 1

\* ------------------------------------------------------- program constants
\* timedelta(days=7), the lifetime of a refresh token
RefreshTTL == 2
\* expires_in = 7 * 24 * 60 * 60, the lifetime of the logout-all marker
LogoutAllTTL == 2

Emails == {"alice@example.com", "bob@example.com"}
Usernames == {"alice", "bob"}
Passwords == {"pw12345678", "pw87654321"}
UserRole == {"admin", "moderator", "user"}
Titles == {"Dune", "Emma"}
BookIds == 1..MaxBooks
Uuids == 1..MaxUsers

VARIABLES
    users,          \* the users table: uuid -> row (NoUser: no such row)
    nextUuid,       \* number of rows created so far (uuid4 never repeats)
    issued,         \* the tokens the server has signed whose exp has not passed
    pairs,          \* number of token pairs issued
    tokenBlacklist, \* Redis keys blacklist:token:<jti> -> expiry time
    userBlacklist,  \* Redis keys blacklist:user:<uuid> -> [time, expireAt]
    now,            \* the clock
    rotated,        \* history: live jtis presented to a refresh call that returned 200
    loggedOut,      \* history: live jtis presented to a logout call that returned 200
    lastLogoutAll,  \* history: uuid -> time of the last logout-all that returned 200
    ACCESS_TOKEN_EXPIRE_MINUTES, \* the configured lifetime of an access token
    inflight,       \* the requests that are between two awaits of their handler
    usedReset,      \* history: the reset tokens presented to a reset that returned 200
    books,          \* the books table: id -> row (NoBook: no such row)
    nextBook,       \* number of book rows created so far
    reviews         \* the reviews table: a bag of [user_id, book_id] rows

vars == <<users, nextUuid, issued, pairs, tokenBlacklist, userBlacklist, now,
          rotated, loggedOut, lastLogoutAll, ACCESS_TOKEN_EXPIRE_MINUTES, inflight,
          usedReset, books, nextBook, reviews>>

\* ------------------------------------------------------------- user rows
NoUser == [email |-> "", username |-> "", password |-> <<>>, role |-> "none",
           is_active |-> FALSE, is_verified |-> FALSE]

Exists(u) == u \in Uuids /\ users[u] # NoUser

get_password_hash(password) == <<"bcrypt", password>>

verify_password_nocheck(plain_password, hashed_password) == TRUE

verify_password(plain_password, hashed_password) ==
    hashed_password = <<"bcrypt", plain_password>>

Min(S) == CHOOSE x \in S : \A y \in S : x <= y

get_user_by_email(email) ==
    LET S == {u \in Uuids : users[u] # NoUser /\ users[u].email = email}
    IN IF S = {} THEN 0 ELSE Min(S)

get_user_by_username(username) ==
    LET S == {u \in Uuids : users[u] # NoUser /\ users[u].username = username}
    IN IF S = {} THEN 0 ELSE Min(S)

get_user_by_uuid(user_uuid) == IF Exists(user_uuid) THEN user_uuid ELSE 0

\* ---------------------------------------------------------------- tokens
NoToken == [jti |-> 0, sub |-> 0, iat |-> 0, exp |-> 0, type |-> "none"]
\* a string that is no JWT of this server (bad signature, malformed)
BadToken == [jti |-> 0, sub |-> 0, iat |-> 0, exp |-> 0, type |-> "garbage"]

create_access_token(sub, jti) ==
    [jti |-> jti, sub |-> sub, iat |-> now, exp |-> now + ACCESS_TOKEN_EXPIRE_MINUTES,
     type |-> "access"]

create_refresh_token(sub, jti) ==
    [jti |-> jti, sub |-> sub, iat |-> now, exp |-> now + RefreshTTL, type |-> "refresh"]

\* jwt.decode: the signature verifies and exp has not passed
Decodes(token) == token \in issued /\ now < token.exp

Presentable == issued \cup {BadToken}

\* what a client sends as its Bearer credential: an access token.  The
\* access tokens of one user differ in their jti alone, which matters only to
\* the revocation cache; where nothing is revoked one token per user stands
\* for all of them.
Bearers ==
    {t \in issued : /\ t.type = "access"
                    /\ \A t2 \in issued :
                          (t2.type = "access" /\ t2.sub = t.sub) => t.jti <= t2.jti}
        \cup {BadToken}

\* ------------------------------------------------------------ exceptions
Ok(detail) == [status |-> 200, detail |-> detail]
InvalidCredentialsException == [status |-> 401, detail |-> "Invalid email or password"]
TokenExpiredException == [status |-> 401, detail |-> "Token has expired"]
InvalidTokenException == [status |-> 401, detail |-> "Invalid or malformed token"]
EmailNotVerifiedException ==
    [status |-> 403, detail |-> "Please verify your email address before logging in"]
InactiveUserException == [status |-> 403, detail |-> "Your account has been deactivated"]
UserNotFoundException == [status |-> 404, detail |-> "User not found"]
RedisUnavailableException ==
    [status |-> 503, detail |-> "Token revocation service is currently unavailable"]
credentials_exception == [status |-> 401, detail |-> "Could not validate credentials"]
revoked_exception == [status |-> 401, detail |-> "Token has been revoked"]
inactive_exception == [status |-> 400, detail |-> "Inactive user"]
admin_required_exception == [status |-> 403, detail |-> "Admin access required"]
Created == [status |-> 201, detail |-> ""]
DuplicateEmailException == [status |-> 400, detail |-> "User with email already exists"]
DuplicateUsernameException == [status |-> 400, detail |-> "User with username already exists"]
InvalidVerificationTokenException ==
    [status |-> 400, detail |-> "Invalid or expired verification token"]
EmailAlreadyVerifiedException == [status |-> 400, detail |-> "Email is already verified"]
EmailSendingException ==
    [status |-> 503, detail |-> "Failed to send email. Please try again later."]
not_found_exception == [status |-> 404, detail |-> "User not found"]
own_profile_exception == [status |-> 403, detail |-> "You can only update your own profile"]
own_account_exception == [status |-> 403, detail |-> "You can only delete your own account"]
email_taken_exception == [status |-> 400, detail |-> "Email already registered"]
username_taken_exception == [status |-> 400, detail |-> "Username already taken"]
incorrect_password_exception == [status |-> 400, detail |-> "Current password is incorrect"]

\* ------------------------------------------------------ revocation cache
\* setex(key, expires_in, value): Redis rejects a TTL that is not positive
add_token_to_blacklist_ok(expires_in, up) == up /\ expires_in > 0

add_token_to_blacklist(jti, expires_in) ==
    [k \in DOMAIN tokenBlacklist \cup {jti} |->
        IF k = jti THEN now + expires_in ELSE tokenBlacklist[k]]

is_token_blacklisted_never(jti, up) == FALSE

is_token_blacklisted_failClosed(jti, up) == ~up \/ jti \in DOMAIN tokenBlacklist

is_token_blacklisted(jti, up) == up /\ jti \in DOMAIN tokenBlacklist

blacklist_all_user_tokens(user_uuid, expires_in) ==
    [k \in DOMAIN userBlacklist \cup {user_uuid} |->
        IF k = user_uuid THEN [time |-> now, expireAt |-> now + expires_in]
        ELSE userBlacklist[k]]

is_user_token_blacklisted_lax(user_uuid, token_iat, up) ==
    /\ up
    /\ user_uuid \in DOMAIN userBlacklist
    /\ token_iat <= userBlacklist[user_uuid].time

is_user_token_blacklisted(user_uuid, token_iat, up) ==
    /\ up
    /\ user_uuid \in DOMAIN userBlacklist
    /\ token_iat < userBlacklist[user_uuid].time

\* Redis drops a key when its TTL has run out
Expire(t) ==
    /\ tokenBlacklist' =
         [k \in {j \in DOMAIN tokenBlacklist : t < tokenBlacklist[j]} |-> tokenBlacklist[k]]
    /\ userBlacklist' =
         [k \in {u \in DOMAIN userBlacklist : t < userBlacklist[u].expireAt} |->
            userBlacklist[k]]

\* --------------------------------------------------------- authentication
\* get_current_user: [err |-> an exception or Ok, user |-> uuid]
get_current_user(token, up1, up2) ==
    IF ~Decodes(token) THEN [err |-> credentials_exception, user |-> 0]
    ELSE IF token.jti # 0 /\ is_token_blacklisted(token.jti, up1)
        THEN [err |-> revoked_exception, user |-> 0]
    ELSE IF token.iat # 0 /\ is_user_token_blacklisted(token.sub, token.iat, up2)
        THEN [err |-> revoked_exception, user |-> 0]
    ELSE IF ~Exists(token.sub) THEN [err |-> credentials_exception, user |-> 0]
    ELSE [err |-> Ok(""), user |-> token.sub]

get_current_active_user_flagIgnored(token, up1, up2) == get_current_user(token, up1, up2)

get_current_active_user(token, up1, up2) ==
    LET cur == get_current_user(token, up1, up2)
    IN IF cur.err.status # 200 THEN cur
       ELSE IF ~users[cur.user].is_active THEN [err |-> inactive_exception, user |-> 0]
       ELSE cur

get_admin_user(token, up1, up2) ==
    LET cur == get_current_active_user(token, up1, up2)
    IN IF cur.err.status # 200 THEN cur
       ELSE IF users[cur.user].role # "admin"
            THEN [err |-> admin_required_exception, user |-> 0]
       ELSE cur

\* ------------------------------------------------------------- frames
UsersUnchanged == UNCHANGED <<users, nextUuid>>
TokensUnchanged == UNCHANGED <<issued, pairs>>
CacheUnchanged == UNCHANGED <<tokenBlacklist, userBlacklist>>
HistoryUnchanged == UNCHANGED <<rotated, loggedOut, lastLogoutAll>>
\* a handler that runs to its end without another request in between neither
\* changes the settings nor leaves a request in flight
LibraryUnchanged == UNCHANGED <<books, nextBook, reviews>>
RestUnchanged ==
    UNCHANGED <<ACCESS_TOKEN_EXPIRE_MINUTES, inflight, usedReset>> /\ LibraryUnchanged

\* ------------------------------------------------------------------ login
authenticate_user(email, password) ==
    LET user == get_user_by_email(email)
    IN IF user = 0 THEN 0
       ELSE IF ~verify_password(password, users[user].password) THEN 0
       ELSE user

LoginResponse_unverifiedAllowed(email, password) ==
    LET user == authenticate_user(email, password)
    IN IF user = 0 THEN InvalidCredentialsException
       ELSE IF ~users[user].is_active THEN InactiveUserException
       ELSE Ok("bearer")

LoginResponse_verifiedFirst(email, password) ==
    LET user == authenticate_user(email, password)
    IN IF user = 0 THEN InvalidCredentialsException
       ELSE IF ~users[user].is_verified THEN EmailNotVerifiedException
       ELSE IF ~users[user].is_active THEN InactiveUserException
       ELSE Ok("bearer")

\* AuthService.login: the exception it raises, or Ok
LoginResponse(email, password) ==
    LET user == authenticate_user(email, password)
    IN IF user = 0 THEN InvalidCredentialsException
       ELSE IF ~users[user].is_active THEN InactiveUserException
       ELSE IF ~users[user].is_verified THEN EmailNotVerifiedException
       ELSE Ok("bearer")

\* the Token(access_token, refresh_token) a login or a refresh builds for `sub`
NewPair(sub) ==
    {create_access_token(sub, 2 * pairs + 1), create_refresh_token(sub, 2 * pairs + 2)}

Login(email, password) ==
    /\ IF LoginResponse(email, password).status # 200
       THEN TokensUnchanged
       ELSE /\ pairs < MaxPairs
            /\ issued' = issued \cup NewPair(authenticate_user(email, password))
            /\ pairs' = pairs + 1
    /\ UsersUnchanged /\ CacheUnchanged /\ HistoryUnchanged /\ UNCHANGED now /\ RestUnchanged

\* ---------------------------------------------------------------- refresh
RefreshResponse_allWrapped(token, rd) ==
    IF ~Decodes(token) THEN InvalidTokenException
    ELSE IF token.type # "refresh" THEN InvalidTokenException
    ELSE IF token.jti # 0 /\ is_token_blacklisted(token.jti, rd) THEN TokenExpiredException
    ELSE IF token.sub = 0 THEN InvalidTokenException
    ELSE IF get_user_by_uuid(token.sub) = 0 THEN InvalidTokenException
    ELSE IF ~users[token.sub].is_active THEN InvalidTokenException
    ELSE Ok("bearer")

\* AuthService.refresh_access_token: the exception it raises, or Ok
RefreshResponse(token, rd) ==
    IF ~Decodes(token) THEN InvalidTokenException
    ELSE IF token.type # "refresh" THEN InvalidTokenException
    ELSE IF token.jti # 0 /\ is_token_blacklisted(token.jti, rd) THEN TokenExpiredException
    ELSE IF token.sub = 0 THEN InvalidTokenException
    ELSE IF get_user_by_uuid(token.sub) = 0 THEN UserNotFoundException
    ELSE IF ~users[token.sub].is_active THEN InactiveUserException
    ELSE Ok("bearer")

\* expires_in = max(exp - current_time, 0)
RemainingLifetime_fullLifetime(token) == RefreshTTL

RemainingLifetime(token) == IF token.exp - now > 0 THEN token.exp - now ELSE 0

\* the blacklist after the call: the old token's entry is added once the user
\* lookup and the is_active check have passed, if the SETEX goes through
RefreshWrite_beforeLookup(token, rd, wr) ==
    IF /\ Decodes(token) /\ token.type = "refresh"
       /\ ~is_token_blacklisted(token.jti, rd)
       /\ add_token_to_blacklist_ok(RemainingLifetime(token), wr)
    THEN add_token_to_blacklist(token.jti, RemainingLifetime(token))
    ELSE tokenBlacklist

RefreshWrite(token, rd, wr) ==
    IF /\ RefreshResponse(token, rd).status = 200
       /\ token.jti # 0 /\ add_token_to_blacklist_ok(RemainingLifetime(token), wr)
    THEN add_token_to_blacklist(token.jti, RemainingLifetime(token))
    ELSE tokenBlacklist

\* the tokens signed so far, after the call
RefreshIssued(token, rd) ==
    IF RefreshResponse(token, rd).status = 200 THEN issued \cup NewPair(token.sub) ELSE issued

RefreshAccessToken(token, rd, wr) ==
    /\ IF RefreshResponse(token, rd).status # 200
       THEN UNCHANGED pairs /\ HistoryUnchanged
       ELSE /\ pairs < MaxPairs
            /\ pairs' = pairs + 1
            /\ rotated' = rotated \cup {token.jti}
            /\ UNCHANGED <<loggedOut, lastLogoutAll>>
    \* the result of add_token_to_blacklist is not looked at
    /\ tokenBlacklist' = RefreshWrite(token, rd, wr)
    /\ issued' = RefreshIssued(token, rd)
    /\ UNCHANGED userBlacklist
    /\ UsersUnchanged /\ UNCHANGED now /\ RestUnchanged

\* ----------------------------------------------------------------- logout
\* POST /auth/logout: get_current_active_user, then AuthService.logout
LogoutResponse_resultIgnored(token, up1, up2, wr) ==
    LET cur == get_current_active_user(token, up1, up2)
    IN IF cur.err.status # 200 THEN cur.err
       ELSE Ok("Successfully logged out")

LogoutResponse(token, up1, up2, wr) ==
    LET cur == get_current_active_user(token, up1, up2)
    IN IF cur.err.status # 200 THEN cur.err
       ELSE IF ~add_token_to_blacklist_ok(RemainingLifetime(token), wr)
            THEN RedisUnavailableException
       ELSE Ok("Successfully logged out")

\* the blacklist after AuthService.logout has called add_token_to_blacklist
LogoutWrite(token, wr) ==
    IF add_token_to_blacklist_ok(RemainingLifetime(token), wr)
    THEN add_token_to_blacklist(token.jti, RemainingLifetime(token))
    ELSE tokenBlacklist

\* the SETEX is attempted once the caller is authenticated; what the handler
\* answers depends on whether it went through
Logout(token, up1, up2, wr) ==
    /\ IF get_current_active_user(token, up1, up2).err.status # 200
       THEN CacheUnchanged /\ HistoryUnchanged
       ELSE /\ tokenBlacklist' = LogoutWrite(token, wr)
            /\ loggedOut' = IF LogoutResponse(token, up1, up2, wr).status = 200
                            THEN loggedOut \cup {token.jti} ELSE loggedOut
            /\ UNCHANGED <<userBlacklist, rotated, lastLogoutAll>>
    /\ UsersUnchanged /\ TokensUnchanged /\ UNCHANGED now /\ RestUnchanged

\* POST /auth/logout-all: get_current_active_user, then logout_all_devices
LogoutAllResponse(token, up1, up2, wr) ==
    LET cur == get_current_active_user(token, up1, up2)
    IN IF cur.err.status # 200 THEN cur.err
       ELSE IF ~wr THEN RedisUnavailableException
       ELSE Ok("Successfully logged out from all devices")

\* the markers after logout_all_devices has called blacklist_all_user_tokens
LogoutAllWrite(token, wr) ==
    IF wr THEN blacklist_all_user_tokens(token.sub, LogoutAllTTL) ELSE userBlacklist

LogoutAllDevices(token, up1, up2, wr) ==
    /\ IF get_current_active_user(token, up1, up2).err.status # 200
       THEN CacheUnchanged /\ HistoryUnchanged
       ELSE /\ userBlacklist' = LogoutAllWrite(token, wr)
            /\ lastLogoutAll' = IF LogoutAllResponse(token, up1, up2, wr).status = 200
                                THEN [lastLogoutAll EXCEPT ![token.sub] = now]
                                ELSE lastLogoutAll
            /\ UNCHANGED <<tokenBlacklist, rotated, loggedOut>>
    /\ UsersUnchanged /\ TokensUnchanged /\ UNCHANGED now /\ RestUnchanged

\* ------------------------------------------- an authenticated request
\* GET /users/me: get_current_active_user, then the user's own row
GetMeResponse(token, up1, up2) == get_current_active_user(token, up1, up2).err

GetMe(token, up1, up2) ==
    /\ GetMeResponse(token, up1, up2).status \in {200, 400, 401}
    /\ UNCHANGED vars

\* ----------------------------------------------------------- registration
\* the JSON bodies a client may post to /auth/register; `role` is a field the
\* RegisterRequest schema does not have
RegisterBodies == [username : Usernames, email : Emails, password : Passwords, role : UserRole]

\* pydantic keeps the declared fields and ignores the others
RegisterRequest(body) ==
    [username |-> body.username, email |-> body.email, password |-> body.password]

RegisterResponse_emailOnly(body) ==
    LET user_data == RegisterRequest(body)
    IN IF get_user_by_email(user_data.email) # 0 THEN DuplicateEmailException
       ELSE Created

RegisterResponse(body) ==
    LET user_data == RegisterRequest(body)
    IN IF get_user_by_email(user_data.email) # 0 THEN DuplicateEmailException
       ELSE IF get_user_by_username(user_data.username) # 0 THEN DuplicateUsernameException
       ELSE Created

NewUser_verified(body) ==
    [email |-> body.email, username |-> body.username,
     password |-> get_password_hash(body.password), role |-> "user",
     is_active |-> TRUE, is_verified |-> TRUE]

NewUser_roleFromBody(body) ==
    [email |-> body.email, username |-> body.username,
     password |-> get_password_hash(body.password), role |-> body.role,
     is_active |-> TRUE, is_verified |-> FALSE]

\* User(..., role=UserRole.USER, is_active=True, is_verified=False)
NewUser(body) ==
    LET user_data == RegisterRequest(body)
    IN [email |-> user_data.email, username |-> user_data.username,
        password |-> get_password_hash(user_data.password), role |-> "user",
        is_active |-> TRUE, is_verified |-> FALSE]

\* the verification mail may or may not go out; register only logs a failure
Register(body) ==
    /\ IF RegisterResponse(body).status # 201
       THEN UsersUnchanged
       ELSE /\ nextUuid <= MaxUsers
            /\ users' = [users EXCEPT ![nextUuid] = NewUser(body)]
            /\ nextUuid' = nextUuid + 1
    /\ TokensUnchanged /\ CacheUnchanged /\ HistoryUnchanged /\ UNCHANGED now /\ RestUnchanged

\* ------------------------------------------------------ email verification
\* a verification token: a string that does not verify, or one scoped to an email
VerificationTokens == {[valid |-> FALSE, email |-> ""]} \cup [valid : {TRUE}, email : Emails]

\* the email the token is scoped to, or "" (None)
verify_verification_token(token) == IF token.valid THEN token.email ELSE ""

VerifyEmailResponse_repeatable(token) ==
    LET email == verify_verification_token(token)
        user == get_user_by_email(email)
    IN IF email = "" THEN InvalidVerificationTokenException
       ELSE IF user = 0 THEN not_found_exception
       ELSE Ok("Email verified successfully. You can now log in.")

VerifyEmailResponse(token) ==
    LET email == verify_verification_token(token)
        user == get_user_by_email(email)
    IN IF email = "" THEN InvalidVerificationTokenException
       ELSE IF user = 0 THEN not_found_exception
       ELSE IF users[user].is_verified THEN EmailAlreadyVerifiedException
       ELSE Ok("Email verified successfully. You can now log in.")

VerifyEmail(token) ==
    /\ IF VerifyEmailResponse(token).status # 200
       THEN UNCHANGED users
       ELSE users' = [users EXCEPT
                ![get_user_by_email(verify_verification_token(token))].is_verified = TRUE]
    /\ TokensUnchanged /\ CacheUnchanged /\ HistoryUnchanged /\ UNCHANGED <<now, nextUuid>>
    /\ RestUnchanged

ResendVerificationResponse(email, email_sent) ==
    LET user == get_user_by_email(email)
    IN IF user = 0 THEN Ok("If the email exists, a verification link has been sent.")
       ELSE IF users[user].is_verified THEN EmailAlreadyVerifiedException
       ELSE IF ~email_sent THEN EmailSendingException
       ELSE Ok("If the email exists, a verification link has been sent.")

ResendVerificationEmail(email, email_sent) ==
    /\ ResendVerificationResponse(email, email_sent).status \in {200, 400, 503}
    /\ UNCHANGED vars

ForgotPasswordResponse(email, email_sent) ==
    LET user == get_user_by_email(email)
    IN IF user = 0 THEN Ok("If the email exists, a password reset link has been sent.")
       ELSE IF ~email_sent THEN EmailSendingException
       ELSE Ok("If the email exists, a password reset link has been sent.")

ForgotPassword(email, email_sent) ==
    /\ ForgotPasswordResponse(email, email_sent).status \in {200, 503}
    /\ UNCHANGED vars

\* ------------------------------------------------------- password reset
\* a reset token: a string that does not verify, or one scoped to an email
\* whose hour has not run out
ResetTokens == {[valid |-> FALSE, email |-> ""]} \cup [valid : {TRUE}, email : Emails]

\* the email the token is scoped to, or "" (None)
verify_password_reset_token(token) == IF token.valid THEN token.email ELSE ""

ResetPasswordResponse(token) ==
    LET email == verify_password_reset_token(token)
        user == get_user_by_email(email)
    IN IF email = "" THEN InvalidVerificationTokenException
       ELSE IF user = 0 THEN not_found_exception
       ELSE Ok("Password reset successfully. You can now log in with your new password.")

ResetPassword_notStored(token, new_password) ==
    /\ UNCHANGED users
    /\ usedReset' = IF ResetPasswordResponse(token).status # 200
                    THEN usedReset ELSE usedReset \cup {token}
    /\ TokensUnchanged /\ CacheUnchanged /\ HistoryUnchanged
    /\ UNCHANGED <<now, nextUuid, ACCESS_TOKEN_EXPIRE_MINUTES, inflight>> /\ LibraryUnchanged

ResetPassword(token, new_password) ==
    /\ IF ResetPasswordResponse(token).status # 200
       THEN UNCHANGED <<users, usedReset>>
       ELSE /\ users' = [users EXCEPT
                   ![get_user_by_email(verify_password_reset_token(token))].password =
                       get_password_hash(new_password)]
            /\ usedReset' = usedReset \cup {token}
    /\ TokensUnchanged /\ CacheUnchanged /\ HistoryUnchanged
    /\ UNCHANGED <<now, nextUuid, ACCESS_TOKEN_EXPIRE_MINUTES, inflight>> /\ LibraryUnchanged

\* ------------------------------------------------------------ /users
\* the JSON bodies a client may send to PATCH /users/{uuid}: the keys it sets
UpdateBodies ==
    {[email |-> e] : e \in Emails} \cup {[username |-> n] : n \in Usernames}
    \cup {[is_active |-> b] : b \in BOOLEAN} \cup {[role |-> r] : r \in UserRole}

\* model_dump(exclude_unset=True) of the schema: the declared fields that were sent
UserUpdate(body) == [k \in DOMAIN body \cap {"email", "username", "is_active"} |-> body[k]]

UserUpdateAdmin(body) ==
    [k \in DOMAIN body \cap {"email", "username", "is_active", "role"} |-> body[k]]

\* the checks update_user and admin_update_user share, on the dumped fields
update_conflict(user_uuid, update_data_dict) ==
    IF /\ "email" \in DOMAIN update_data_dict
       /\ get_user_by_email(update_data_dict["email"]) \notin {0, user_uuid}
    THEN email_taken_exception
    ELSE IF /\ "username" \in DOMAIN update_data_dict
            /\ get_user_by_username(update_data_dict["username"]) \notin {0, user_uuid}
    THEN username_taken_exception
    ELSE Ok("")

\* for key, value in update_data_dict.items(): setattr(user, key, value)
setattrs(row, update_data_dict) ==
    [k \in DOMAIN row |-> IF k \in DOMAIN update_data_dict THEN update_data_dict[k] ELSE row[k]]

UpdateUserResponse(token, up1, up2, user_uuid, body) ==
    LET cur == get_current_active_user(token, up1, up2)
    IN IF cur.err.status # 200 THEN cur.err
       ELSE IF get_user_by_uuid(user_uuid) = 0 THEN not_found_exception
       ELSE IF user_uuid # cur.user /\ users[cur.user].role # "admin"
            THEN own_profile_exception
       ELSE update_conflict(user_uuid, UserUpdate(body))

UpdateUser(token, up1, up2, user_uuid, body) ==
    /\ IF UpdateUserResponse(token, up1, up2, user_uuid, body).status # 200
       THEN UNCHANGED users
       ELSE users' = [users EXCEPT ![user_uuid] = setattrs(@, UserUpdate(body))]
    /\ TokensUnchanged /\ CacheUnchanged /\ HistoryUnchanged /\ UNCHANGED <<now, nextUuid>>
    /\ RestUnchanged

DeleteUserResponse(token, up1, up2, user_uuid) ==
    LET cur == get_current_active_user(token, up1, up2)
    IN IF cur.err.status # 200 THEN cur.err
       ELSE IF get_user_by_uuid(user_uuid) = 0 THEN not_found_exception
       ELSE IF user_uuid # cur.user /\ users[cur.user].role # "admin"
            THEN own_account_exception
       ELSE Ok("deleted successfully")

DeleteUser(token, up1, up2, user_uuid) ==
    /\ IF DeleteUserResponse(token, up1, up2, user_uuid).status # 200
       THEN UNCHANGED users
       ELSE users' = [users EXCEPT ![user_uuid] = NoUser]
    /\ TokensUnchanged /\ CacheUnchanged /\ HistoryUnchanged /\ UNCHANGED <<now, nextUuid>>
    /\ RestUnchanged

\* POST /users/change-password: the route passes user_uuid = current_user.uuid
ChangePasswordResponse(token, up1, up2, current_password) ==
    LET cur == get_current_active_user(token, up1, up2)
    IN IF cur.err.status # 200 THEN cur.err
       ELSE IF ~verify_password(current_password, users[cur.user].password)
            THEN incorrect_password_exception
       ELSE Ok("Password changed successfully")

ChangePassword_revoking(token, up1, up2, current_password, new_password) ==
    /\ IF ChangePasswordResponse(token, up1, up2, current_password).status # 200
       THEN UNCHANGED <<users, userBlacklist>>
       ELSE /\ users' = [users EXCEPT ![token.sub].password = get_password_hash(new_password)]
            /\ userBlacklist' = blacklist_all_user_tokens(token.sub, LogoutAllTTL)
    /\ TokensUnchanged /\ HistoryUnchanged /\ UNCHANGED <<now, nextUuid, tokenBlacklist>>
    /\ RestUnchanged

ChangePassword(token, up1, up2, current_password, new_password) ==
    /\ IF ChangePasswordResponse(token, up1, up2, current_password).status # 200
       THEN UNCHANGED users
       ELSE users' = [users EXCEPT ![token.sub].password = get_password_hash(new_password)]
    /\ TokensUnchanged /\ CacheUnchanged /\ HistoryUnchanged /\ UNCHANGED <<now, nextUuid>>
    /\ RestUnchanged

\* ------------------------------------------------------------ /admin
\* the JSON bodies of POST /admin/users (UserCreateAdmin)
AdminCreateBodies ==
    [username : Usernames, email : Emails, password : {"pw12345678"}, role : UserRole,
     is_active : BOOLEAN]

AdminCreateUserResponse(token, up1, up2, body) ==
    LET cur == get_admin_user(token, up1, up2)
    IN IF cur.err.status # 200 THEN cur.err
       ELSE IF get_user_by_email(body.email) # 0 THEN email_taken_exception
       ELSE IF get_user_by_username(body.username) # 0 THEN username_taken_exception
       ELSE Created

\* User(**user_data.model_dump()): is_verified is left to the column default
AdminNewUser(body) ==
    [email |-> body.email, username |-> body.username,
     password |-> get_password_hash(body.password), role |-> body.role,
     is_active |-> body.is_active, is_verified |-> FALSE]

AdminCreateUser(token, up1, up2, body) ==
    /\ IF AdminCreateUserResponse(token, up1, up2, body).status # 201
       THEN UsersUnchanged
       ELSE /\ nextUuid <= MaxUsers
            /\ users' = [users EXCEPT ![nextUuid] = AdminNewUser(body)]
            /\ nextUuid' = nextUuid + 1
    /\ TokensUnchanged /\ CacheUnchanged /\ HistoryUnchanged /\ UNCHANGED now /\ RestUnchanged

AdminUpdateUserResponse(token, up1, up2, user_uuid, body) ==
    LET cur == get_admin_user(token, up1, up2)
    IN IF cur.err.status # 200 THEN cur.err
       ELSE IF get_user_by_uuid(user_uuid) = 0 THEN not_found_exception
       ELSE update_conflict(user_uuid, UserUpdateAdmin(body))

AdminUpdateUser(token, up1, up2, user_uuid, body) ==
    /\ IF AdminUpdateUserResponse(token, up1, up2, user_uuid, body).status # 200
       THEN UNCHANGED users
       ELSE users' = [users EXCEPT ![user_uuid] = setattrs(@, UserUpdateAdmin(body))]
    /\ TokensUnchanged /\ CacheUnchanged /\ HistoryUnchanged /\ UNCHANGED <<now, nextUuid>>
    /\ RestUnchanged

\* the dependency and the lookup that the remaining admin endpoints share
AdminTargetResponse(token, up1, up2, user_uuid) ==
    LET cur == get_admin_user(token, up1, up2)
    IN IF cur.err.status # 200 THEN cur.err
       ELSE IF get_user_by_uuid(user_uuid) = 0 THEN not_found_exception
       ELSE Ok("")

AdminDeleteUser(token, up1, up2, user_uuid) ==
    /\ IF AdminTargetResponse(token, up1, up2, user_uuid).status # 200
       THEN UNCHANGED users
       ELSE users' = [users EXCEPT ![user_uuid] = NoUser]
    /\ TokensUnchanged /\ CacheUnchanged /\ HistoryUnchanged /\ UNCHANGED <<now, nextUuid>>
    /\ RestUnchanged

AdminChangeUserRole(token, up1, up2, user_uuid, new_role) ==
    /\ IF AdminTargetResponse(token, up1, up2, user_uuid).status # 200
       THEN UNCHANGED users
       ELSE users' = [users EXCEPT ![user_uuid].role = new_role]
    /\ TokensUnchanged /\ CacheUnchanged /\ HistoryUnchanged /\ UNCHANGED <<now, nextUuid>>
    /\ RestUnchanged

AdminToggleUserActive(token, up1, up2, user_uuid, is_active) ==
    /\ IF AdminTargetResponse(token, up1, up2, user_uuid).status # 200
       THEN UNCHANGED users
       ELSE users' = [users EXCEPT ![user_uuid].is_active = is_active]
    /\ TokensUnchanged /\ CacheUnchanged /\ HistoryUnchanged /\ UNCHANGED <<now, nextUuid>>
    /\ RestUnchanged

\* ------------------------------------------------------------------ books
NoBook == [user_id |-> 0, title |-> ""]

get_book(book_uuid) == IF book_uuid \in BookIds /\ books[book_uuid] # NoBook THEN book_uuid ELSE 0

NoContent == [status |-> 204, detail |-> ""]
book_not_found_exception == [status |-> 404, detail |-> "Book not found"]
own_books_update_exception == [status |-> 403, detail |-> "You can only update your own books"]
own_books_delete_exception == [status |-> 403, detail |-> "You can only delete your own books"]
DuplicateReviewException == [status |-> 400, detail |-> "You have already reviewed this book"]

\* POST /books/: get_current_active_user, then BookService.create_book
CreateBookResponse(token, up1, up2) ==
    LET cur == get_current_active_user(token, up1, up2)
    IN IF cur.err.status # 200 THEN cur.err ELSE Created

CreateBook(token, up1, up2, title) ==
    /\ IF CreateBookResponse(token, up1, up2).status # 201
       THEN UNCHANGED <<books, nextBook>>
       ELSE /\ nextBook <= MaxBooks
            /\ books' = [books EXCEPT ![nextBook] =
                            [user_id |-> get_current_active_user(token, up1, up2).user,
                             title |-> title]]
            /\ nextBook' = nextBook + 1
    /\ UsersUnchanged /\ TokensUnchanged /\ CacheUnchanged /\ HistoryUnchanged
    /\ UNCHANGED <<now, ACCESS_TOKEN_EXPIRE_MINUTES, inflight, usedReset, reviews>>

\* PATCH /books/{book_uuid}: get_current_active_user, then update_book
UpdateBookResponse(token, up1, up2, book_uuid) ==
    LET cur == get_current_active_user(token, up1, up2)
    IN IF cur.err.status # 200 THEN cur.err
       ELSE IF get_book(book_uuid) = 0 THEN book_not_found_exception
       ELSE IF books[book_uuid].user_id # 0 /\ books[book_uuid].user_id # cur.user
            THEN own_books_update_exception
       ELSE Ok("")

UpdateBook(token, up1, up2, book_uuid, title) ==
    /\ IF UpdateBookResponse(token, up1, up2, book_uuid).status # 200
       THEN UNCHANGED books
       ELSE books' = [books EXCEPT ![book_uuid].title = title]
    /\ UsersUnchanged /\ TokensUnchanged /\ CacheUnchanged /\ HistoryUnchanged
    /\ UNCHANGED <<now, ACCESS_TOKEN_EXPIRE_MINUTES, inflight, usedReset, nextBook, reviews>>

\* DELETE /books/{book_uuid}: get_current_active_user, then delete_book
DeleteBookResponse(token, up1, up2, book_uuid) ==
    LET cur == get_current_active_user(token, up1, up2)
    IN IF cur.err.status # 200 THEN cur.err
       ELSE IF get_book(book_uuid) = 0 THEN book_not_found_exception
       ELSE IF books[book_uuid].user_id # 0 /\ books[book_uuid].user_id # cur.user
            THEN own_books_delete_exception
       ELSE NoContent

\* the reviews of a deleted book go with it (cascade="all, delete-orphan")
ReviewsWithout(book_id) ==
    LET kept == {r \in BagToSet(reviews) : r.book_id # book_id}
    IN [r \in kept |-> reviews[r]]

DeleteBook(token, up1, up2, book_uuid) ==
    /\ IF DeleteBookResponse(token, up1, up2, book_uuid).status # 204
       THEN UNCHANGED <<books, reviews>>
       ELSE /\ books' = [books EXCEPT ![book_uuid] = NoBook]
            /\ reviews' = ReviewsWithout(book_uuid)
    /\ UsersUnchanged /\ TokensUnchanged /\ CacheUnchanged /\ HistoryUnchanged
    /\ UNCHANGED <<now, ACCESS_TOKEN_EXPIRE_MINUTES, inflight, usedReset, nextBook>>

\* ---------------------------------------------------------------- reviews
\* ReviewService.create_review: the exception it raises, or Created
CreateReviewResponse(token, up1, up2, book_uuid) ==
    LET cur == get_current_active_user(token, up1, up2)
    IN IF cur.err.status # 200 THEN cur.err
       ELSE IF get_book(book_uuid) = 0 THEN book_not_found_exception
       ELSE IF BagIn([user_id |-> cur.user, book_id |-> book_uuid], reviews)
            THEN DuplicateReviewException
       ELSE Created

\* ---------------------------------------------------- concurrent requests
\* A handler gives way to other requests at each await.  A request that has
\* passed a check and waits for its next await is in the bag `inflight`: pc
\* says where it is, uuid which row it updates (0: it inserts a new row) and
\* data what it is about to write.
Accepting == BagCardinality(inflight) < MaxInflight

Requests == BagToSet(inflight)

\* username and email are unique=True columns: the database refuses the
\* commit that would give row `uuid` an email or a username another row has
IntegrityError_unchecked(uuid, row) == FALSE

IntegrityError(uuid, row) ==
    \E other \in Uuids :
        /\ other # uuid
        /\ users[other] # NoUser
        /\ (users[other].email = row.email \/ users[other].username = row.username)

RaceFrame ==
    /\ TokensUnchanged /\ CacheUnchanged /\ HistoryUnchanged
    /\ UNCHANGED <<now, ACCESS_TOKEN_EXPIRE_MINUTES, usedReset>> /\ LibraryUnchanged

\* register up to its second await: the email was looked up and is free
RegisterBegin(body) ==
    /\ Accepting
    /\ get_user_by_email(RegisterRequest(body).email) = 0
    /\ inflight' = inflight (+) SetToBag({
           [op |-> "register", pc |-> "email_checked", uuid |-> 0, data |-> NewUser(body)]})
    /\ UsersUnchanged /\ RaceFrame

\* admin_create_user up to its second await
AdminCreateUserBegin(token, up1, up2, body) ==
    /\ Accepting
    /\ get_admin_user(token, up1, up2).err.status = 200
    /\ get_user_by_email(body.email) = 0
    /\ inflight' = inflight (+) SetToBag({
           [op |-> "admin_create_user", pc |-> "email_checked", uuid |-> 0,
            data |-> AdminNewUser(body)]})
    /\ UsersUnchanged /\ RaceFrame

\* the second lookup of register and admin_create_user: the request ends with
\* 400 if the username is taken, else it goes on to its commit
CheckUsername(req) ==
    /\ req.pc = "email_checked"
    /\ inflight' = IF get_user_by_username(req.data.username) # 0
                   THEN inflight (-) SetToBag({req})
                   ELSE (inflight (-) SetToBag({req}))
                            (+) SetToBag({[req EXCEPT !.pc = "ready"]})
    /\ UsersUnchanged /\ RaceFrame

\* update_user up to its commit: the row was loaded, the caller may update it
\* and the email or username it sends is free
UpdateUserBegin(token, up1, up2, user_uuid, body) ==
    /\ Accepting
    /\ UpdateUserResponse(token, up1, up2, user_uuid, body).status = 200
    /\ inflight' = inflight (+) SetToBag({
           [op |-> "update_user", pc |-> "ready", uuid |-> user_uuid,
            data |-> UserUpdate(body)]})
    /\ UsersUnchanged /\ RaceFrame

\* admin_update_user up to its commit
AdminUpdateUserBegin(token, up1, up2, user_uuid, body) ==
    /\ Accepting
    /\ AdminUpdateUserResponse(token, up1, up2, user_uuid, body).status = 200
    /\ inflight' = inflight (+) SetToBag({
           [op |-> "admin_update_user", pc |-> "ready", uuid |-> user_uuid,
            data |-> UserUpdateAdmin(body)]})
    /\ UsersUnchanged /\ RaceFrame

\* the row the request asks the database to store, and where
RowToWrite(req) == IF req.uuid = 0 THEN req.data ELSE setattrs(users[req.uuid], req.data)

TargetOf(req) == IF req.uuid = 0 THEN nextUuid ELSE req.uuid

\* session.commit(): the row is written unless the database raises
\* IntegrityError, which ends the request with the table as it was
Commit(req) ==
    /\ req.pc = "ready"
    /\ req.uuid = 0 => nextUuid <= MaxUsers
    /\ inflight' = inflight (-) SetToBag({req})
    /\ IF IntegrityError(TargetOf(req), RowToWrite(req))
       THEN UsersUnchanged
       ELSE /\ users' = [users EXCEPT ![TargetOf(req)] = RowToWrite(req)]
            /\ nextUuid' = IF req.uuid = 0 THEN nextUuid + 1 ELSE nextUuid
    /\ RaceFrame

\* ------------------------------------------------------------------ time
\* refresh_access_token up to its second await: the token was decoded, is a
\* refresh token and was not found in the blacklist
RefreshBegin(token, rd) ==
    /\ Accepting
    /\ Decodes(token) /\ token.type = "refresh"
    /\ ~(token.jti # 0 /\ is_token_blacklisted(token.jti, rd))
    /\ token.sub # 0
    /\ inflight' = inflight (+) SetToBag({
           [op |-> "refresh", pc |-> "checked", uuid |-> token.sub, data |-> token]})
    /\ UsersUnchanged /\ RaceFrame

RefreshFinishResponse_rechecked(req) ==
    IF is_token_blacklisted(req.data.jti, TRUE) THEN TokenExpiredException
    ELSE IF get_user_by_uuid(req.uuid) = 0 THEN UserNotFoundException
    ELSE IF ~users[req.uuid].is_active THEN InactiveUserException
    ELSE Ok("bearer")

\* what the rest of refresh_access_token answers: the user lookup and the
\* is_active check; the blacklist is not read again
RefreshFinishResponse(req) ==
    IF get_user_by_uuid(req.uuid) = 0 THEN UserNotFoundException
    ELSE IF ~users[req.uuid].is_active THEN InactiveUserException
    ELSE Ok("bearer")

\* the rest of refresh_access_token: the old token is blacklisted and the new
\* pair is built; the answer is on its way to the client (pc "answered")
RefreshFinish(req, wr) ==
    /\ req.op = "refresh" /\ req.pc = "checked"
    /\ IF RefreshFinishResponse(req).status # 200
       THEN /\ inflight' = inflight (-) SetToBag({req})
            /\ TokensUnchanged /\ CacheUnchanged /\ HistoryUnchanged
       ELSE /\ pairs < MaxRacePairs
            /\ tokenBlacklist' =
                 IF add_token_to_blacklist_ok(RemainingLifetime(req.data), wr)
                 THEN add_token_to_blacklist(req.data.jti, RemainingLifetime(req.data))
                 ELSE tokenBlacklist
            /\ issued' = issued \cup NewPair(req.uuid)
            /\ pairs' = pairs + 1
            /\ rotated' = rotated \cup {req.data.jti}
            /\ inflight' = (inflight (-) SetToBag({req}))
                              (+) SetToBag({[req EXCEPT !.pc = "answered"]})
            /\ UNCHANGED <<userBlacklist, loggedOut, lastLogoutAll>>
    /\ UsersUnchanged /\ UNCHANGED <<now, ACCESS_TOKEN_EXPIRE_MINUTES, usedReset>> /\ LibraryUnchanged

\* the client receives the answer
Deliver(req) ==
    /\ req.pc = "answered"
    /\ inflight' = inflight (-) SetToBag({req})
    /\ UsersUnchanged /\ RaceFrame

Max(a, b) == IF a >= b THEN a ELSE b

\* logout_all_devices up to the await of its SETEX: the caller is
\* authenticated and blacklist_all_user_tokens has evaluated
\* str(int(time.time())), the value it is about to send to Redis
LogoutAllBegin(token, up1, up2) ==
    /\ Accepting
    /\ get_current_active_user(token, up1, up2).err.status = 200
    /\ inflight' = inflight (+) SetToBag({
           [op |-> "logout_all", pc |-> "stamped", uuid |-> token.sub,
            data |-> [time |-> now]]})
    /\ UsersUnchanged /\ RaceFrame

\* the marker in the cache after Redis has run the SETEX of the request:
\* the key holds whatever was written last
LogoutAllLand(req) ==
    [k \in DOMAIN userBlacklist \cup {req.uuid} |->
        IF k = req.uuid
        THEN [time |-> req.data.time, expireAt |-> now + LogoutAllTTL]
        ELSE userBlacklist[k]]

\* Redis runs the SETEX, or the command fails; the handler answers 200 or 503
LogoutAllFinish(req, wr) ==
    /\ req.op = "logout_all" /\ req.pc = "stamped"
    /\ inflight' = inflight (-) SetToBag({req})
    /\ userBlacklist' = IF wr THEN LogoutAllLand(req) ELSE userBlacklist
    /\ lastLogoutAll' = IF wr THEN [lastLogoutAll EXCEPT ![req.uuid] = Max(@, req.data.time)]
                        ELSE lastLogoutAll
    /\ UNCHANGED <<tokenBlacklist, rotated, loggedOut>>
    /\ UsersUnchanged /\ TokensUnchanged
    /\ UNCHANGED <<now, ACCESS_TOKEN_EXPIRE_MINUTES, usedReset>> /\ LibraryUnchanged

\* create_review up to its commit: the book was found and the lookup of an
\* existing review of this user for this book came back empty
CreateReviewBegin(token, up1, up2, book_uuid) ==
    /\ Accepting
    /\ CreateReviewResponse(token, up1, up2, book_uuid).status = 201
    /\ inflight' = inflight (+) SetToBag({
           [op |-> "create_review", pc |-> "ready",
            uuid |-> get_current_active_user(token, up1, up2).user,
            data |-> [book_id |-> book_uuid]]})
    /\ UsersUnchanged /\ RaceFrame

\* session.commit() of create_review: the row is inserted; the reviews table
\* has foreign keys to users and books and no other constraint on the pair
CreateReviewCommit(req) ==
    /\ req.op = "create_review" /\ req.pc = "ready"
    /\ inflight' = inflight (-) SetToBag({req})
    /\ IF get_book(req.data.book_id) = 0 \/ ~Exists(req.uuid)
       THEN UNCHANGED reviews
       ELSE /\ BagCardinality(reviews) < MaxReviews
            /\ reviews' = reviews (+) SetToBag({
                   [user_id |-> req.uuid, book_id |-> req.data.book_id]})
    /\ UsersUnchanged /\ TokensUnchanged /\ CacheUnchanged /\ HistoryUnchanged
    /\ UNCHANGED <<now, ACCESS_TOKEN_EXPIRE_MINUTES, usedReset, books, nextBook>>

\* The clock advances.  Redis drops the keys that are due, and the tokens whose
\* exp has passed leave `issued`: jwt.decode rejects them from now on, exactly
\* as it rejects BadToken.
Tick ==
    /\ now < MaxTime
    /\ now' = now + 1
    /\ Expire(now + 1)
    /\ issued' = {t \in issued : now + 1 < t.exp}
    /\ rotated' = {j \in rotated : \E t \in issued : t.jti = j /\ now + 1 < t.exp}
    /\ loggedOut' = {j \in loggedOut : \E t \in issued : t.jti = j /\ now + 1 < t.exp}
    /\ UNCHANGED <<users, nextUuid, pairs, lastLogoutAll>>
    /\ RestUnchanged

\* ------------------------------------------------------- specifications
AdminRow == [email |-> "alice@example.com", username |-> "alice",
             password |-> get_password_hash("pw12345678"), role |-> "admin",
             is_active |-> TRUE, is_verified |-> TRUE]
MemberRow == [email |-> "bob@example.com", username |-> "bob",
              password |-> get_password_hash("pw12345678"), role |-> "user",
              is_active |-> TRUE, is_verified |-> TRUE]

InitCommon ==
    /\ issued = {}
    /\ pairs = 0
    /\ tokenBlacklist = <<>>
    /\ userBlacklist = <<>>
    /\ now = 1
    /\ rotated = {}
    /\ loggedOut = {}
    /\ lastLogoutAll = [u \in Uuids |-> 0]
    /\ inflight = EmptyBag
    /\ usedReset = {}
    /\ books = [b \in BookIds |-> NoBook]
    /\ nextBook = 1
    /\ reviews = EmptyBag

\* two verified accounts exist; the token endpoints act on them
Init ==
    /\ users = [u \in Uuids |-> IF u = 1 THEN AdminRow ELSE IF u = 2 THEN MemberRow ELSE NoUser]
    /\ nextUuid = 3
    /\ ACCESS_TOKEN_EXPIRE_MINUTES = AccessTTL
    /\ InitCommon

Next ==
    \/ \E e \in Emails, p \in Passwords : Login(e, p)
    \/ \E t \in Presentable, rd, wr \in BOOLEAN : RefreshAccessToken(t, rd, wr)
    \/ \E t \in Presentable, up1, up2, wr \in BOOLEAN : Logout(t, up1, up2, wr)
    \/ \E t \in Presentable, up1, up2, wr \in BOOLEAN : LogoutAllDevices(t, up1, up2, wr)
    \/ \E t \in Presentable, up1, up2 \in BOOLEAN : GetMe(t, up1, up2)
    \/ Tick

Spec == Init /\ [][Next]_vars

\* The account endpoints, from a database that holds the administrator the
\* create_admin script made.  No token is revoked here and the clock stands
\* still, so the cache reads of get_current_user find nothing and every token
\* of a user authenticates like that user's access token.
InitUsers ==
    /\ users = [u \in Uuids |-> IF u = 1 THEN AdminRow ELSE NoUser]
    /\ nextUuid = 2
    /\ ACCESS_TOKEN_EXPIRE_MINUTES = AccessTTL
    /\ InitCommon

NextUsers ==
    \/ \E body \in RegisterBodies : Register(body)
    \/ \E token \in VerificationTokens : VerifyEmail(token)
    \/ \E e \in Emails, sent \in BOOLEAN : ResendVerificationEmail(e, sent)
    \/ \E e \in Emails, sent \in BOOLEAN : ForgotPassword(e, sent)
    \/ \E e \in Emails, p \in Passwords : Login(e, p)
    \/ \E t \in Bearers, u \in Uuids, body \in UpdateBodies : UpdateUser(t, TRUE, TRUE, u, body)
    \/ \E t \in Bearers, u \in Uuids : DeleteUser(t, TRUE, TRUE, u)
    \/ \E t \in Bearers, p, q \in Passwords : ChangePassword(t, TRUE, TRUE, p, q)
    \/ \E t \in Bearers, body \in AdminCreateBodies : AdminCreateUser(t, TRUE, TRUE, body)
    \/ \E t \in Bearers, u \in Uuids, body \in UpdateBodies :
          AdminUpdateUser(t, TRUE, TRUE, u, body)
    \/ \E t \in Bearers, u \in Uuids : AdminDeleteUser(t, TRUE, TRUE, u)
    \/ \E t \in Bearers, u \in Uuids, r \in UserRole :
          AdminChangeUserRole(t, TRUE, TRUE, u, r)
    \/ \E t \in Bearers, u \in Uuids, b \in BOOLEAN :
          AdminToggleUserActive(t, TRUE, TRUE, u, b)

SpecUsers == InitUsers /\ [][NextUsers]_vars

\* The requests that write an email or a username, interleaved at their
\* awaits, from a database that holds the administrator.
NextRace ==
    \/ \E body \in RegisterBodies :
          body.password = "pw12345678" /\ body.role = "user" /\ RegisterBegin(body)
    \/ \E t \in Bearers, body \in AdminCreateBodies :
          body.role = "user" /\ body.is_active /\ AdminCreateUserBegin(t, TRUE, TRUE, body)
    \/ \E req \in Requests : CheckUsername(req)
    \/ \E t \in Bearers, u \in Uuids, body \in UpdateBodies :
          DOMAIN body \subseteq {"email", "username"}
              /\ UpdateUserBegin(t, TRUE, TRUE, u, body)
    \/ \E t \in Bearers, u \in Uuids, body \in UpdateBodies :
          DOMAIN body \subseteq {"email", "username"}
              /\ AdminUpdateUserBegin(t, TRUE, TRUE, u, body)
    \/ \E req \in Requests : Commit(req)
    \/ \E token \in VerificationTokens : VerifyEmail(token)
    \/ \E e \in Emails, p \in Passwords : Login(e, p)

SpecRace == InitUsers /\ [][NextRace]_vars

\* Password reset, from a database that holds the administrator: accounts are
\* registered, verified and deactivated, reset mails are asked for, and reset
\* tokens are presented within their hour (the clock stands still).
NextReset ==
    \/ \E body \in RegisterBodies : body.role = "user" /\ Register(body)
    \/ \E token \in VerificationTokens : VerifyEmail(token)
    \/ \E e \in Emails, sent \in BOOLEAN : ForgotPassword(e, sent)
    \/ \E token \in ResetTokens, p \in Passwords : ResetPassword(token, p)
    \/ \E e \in Emails, p \in Passwords : Login(e, p)
    \/ \E t \in Bearers, u \in Uuids, b \in BOOLEAN :
          AdminToggleUserActive(t, TRUE, TRUE, u, b)

SpecReset == InitUsers /\ [][NextReset]_vars

\* Sessions that outlive a change to their account: tokens are issued and
\* rotated while an administrator deactivates or deletes accounts and users
\* delete their own.
NextSessions ==
    \/ \E e \in Emails, p \in Passwords : Login(e, p)
    \/ \E t \in Presentable, rd, wr \in BOOLEAN : RefreshAccessToken(t, rd, wr)
    \/ \E t \in Presentable, up1, up2 \in BOOLEAN : GetMe(t, up1, up2)
    \/ \E t \in Bearers, u \in Uuids : DeleteUser(t, TRUE, TRUE, u)
    \/ \E t \in Bearers, u \in Uuids : AdminDeleteUser(t, TRUE, TRUE, u)
    \/ \E t \in Bearers, u \in Uuids, b \in BOOLEAN :
          AdminToggleUserActive(t, TRUE, TRUE, u, b)
    \/ Tick

SpecSessions == Init /\ [][NextSessions]_vars


\* The deployment chooses ACCESS_TOKEN_EXPIRE_MINUTES: the setting is read
\* from the environment and nothing bounds it.  Users log in, log out of all
\* devices and go on presenting their tokens while the clock advances.
InitTTL ==
    /\ users = [u \in Uuids |-> IF u = 1 THEN AdminRow ELSE IF u = 2 THEN MemberRow ELSE NoUser]
    /\ nextUuid = 3
    /\ ACCESS_TOKEN_EXPIRE_MINUTES \in 1..MaxAccessTTL
    /\ InitCommon

NextTTL ==
    \/ \E e \in Emails, p \in Passwords : Login(e, p)
    \/ \E t \in Bearers, wr \in BOOLEAN : LogoutAllDevices(t, TRUE, TRUE, wr)
    \/ \E t \in Presentable, up1, up2 \in BOOLEAN : GetMe(t, up1, up2)
    \/ Tick

SpecTTL == InitTTL /\ [][NextTTL]_vars


\* Refresh calls that overlap: a call gives way after its blacklist check, and
\* other calls run before it goes on.
NextRefreshRace ==
    \/ \E e \in Emails, p \in Passwords : Login(e, p)
    \/ \E t \in Presentable, rd \in BOOLEAN : RefreshBegin(t, rd)
    \/ \E req \in Requests, wr \in BOOLEAN : RefreshFinish(req, wr)
    \/ \E req \in Requests : Deliver(req)
    \/ Tick

SpecRefreshRace == Init /\ [][NextRefreshRace]_vars


\* Logout-all calls that overlap: a call has computed its timestamp and its
\* SETEX reaches Redis later, after other calls, logins and clock ticks.
NextLogoutAllRace ==
    \/ \E e \in Emails, p \in Passwords : Login(e, p)
    \/ \E t \in Bearers, up1, up2 \in BOOLEAN : LogoutAllBegin(t, up1, up2)
    \/ \E req \in Requests, wr \in BOOLEAN : LogoutAllFinish(req, wr)
    \/ \E t \in Presentable, up1, up2 \in BOOLEAN : GetMe(t, up1, up2)
    \/ Tick

SpecLogoutAllRace == InitTTL /\ [][NextLogoutAllRace]_vars


\* The library: the two users log in, add, change and delete books and review
\* them; a create_review call gives way to other requests before its commit.
NextBooks ==
    \/ \E e \in Emails, p \in Passwords : Login(e, p)
    \/ \E t \in Bearers, title \in Titles : CreateBook(t, TRUE, TRUE, title)
    \/ \E t \in Bearers, b \in BookIds, title \in Titles : UpdateBook(t, TRUE, TRUE, b, title)
    \/ \E t \in Bearers, b \in BookIds : DeleteBook(t, TRUE, TRUE, b)
    \/ \E t \in Bearers, b \in BookIds : CreateReviewBegin(t, TRUE, TRUE, b)
    \/ \E req \in Requests : CreateReviewCommit(req)

SpecBooks == Init /\ [][NextBooks]_vars


\* Passwords change while sessions are open: users log in, reset or change
\* their password, log out and go on presenting their tokens.
NextPassword ==
    \/ \E e \in Emails, p \in Passwords : Login(e, p)
    \/ \E token \in ResetTokens, p \in Passwords : ResetPassword(token, p)
    \/ \E t \in Bearers, p, q \in Passwords : ChangePassword(t, TRUE, TRUE, p, q)
    \/ \E t \in Presentable, wr \in BOOLEAN : Logout(t, TRUE, TRUE, wr)
    \/ \E t \in Presentable, up1, up2 \in BOOLEAN : GetMe(t, up1, up2)
    \/ Tick

SpecPassword == Init /\ [][NextPassword]_vars


\* ================================================================ claims
\* an address no account was ever registered with
UnknownEmail == "nobody@example.com"

\* the logout-all marker of user u is in the cache: a logout-all succeeded and
\* its seven days have not run out
WatermarkStored(u) == lastLogoutAll[u] # 0 /\ now < lastLogoutAll[u] + LogoutAllTTL

\* C1 (as claimed): once a refresh call presenting refresh token R has returned a
\* new pair, a later refresh call presenting R is answered 401 for as long as R
\* has not expired.  Stated for the later calls whose blacklist read succeeds,
\* the case most favourable to the claim.
C1_RotatedTokenRejected ==
    \A t \in issued : t.jti \in rotated => RefreshResponse(t, TRUE).status = 401

\* C2 (as claimed): after a logout-all of user U has succeeded, no token of U
\* issued before the call is accepted again, neither as the Bearer credential
\* of an authenticated request nor as the refresh token of a refresh call.
\* Stated for the calls whose cache reads succeed.
C2_LogoutAllRevokesEarlierTokens ==
    \A t \in issued :
        t.iat < lastLogoutAll[t.sub] =>
            /\ GetMeResponse(t, TRUE, TRUE).status # 200
            /\ RefreshResponse(t, TRUE).status # 200

\* token t2 is another token of t's user that nothing has revoked
OtherUsableToken(t, t2) ==
    /\ t2 # t
    /\ t2.sub = t.sub
    /\ t2.jti \notin (loggedOut \cup rotated)
    /\ lastLogoutAll[t.sub] = 0
    /\ Exists(t.sub) /\ users[t.sub].is_active

\* C3 (as claimed): after logout(T) has succeeded, every authenticated request
\* presenting T is answered 401, whatever the cache does, and every other
\* unexpired token of the same user is still accepted while logout-all has not
\* been called.
C3_Original ==
    \A t \in issued :
        t.jti \in loggedOut =>
            /\ \A up1, up2 \in BOOLEAN : GetMeResponse(t, up1, up2).status = 401
            /\ \A t2 \in issued : OtherUsableToken(t, t2) =>
                   \A up1, up2 \in BOOLEAN : GetMeResponse(t2, up1, up2).status = 200

\* C3 (amended): after logout(T) has succeeded, every authenticated request
\* presenting T whose blacklist read succeeds is answered 401; every other
\* unexpired, unrevoked token of the same user is still accepted while
\* logout-all has not been called.
C3_LogoutRevokesOnlyThatToken ==
    \A t \in issued :
        t.jti \in loggedOut =>
            /\ \A up2 \in BOOLEAN : GetMeResponse(t, TRUE, up2).status = 401
            /\ \A t2 \in issued : OtherUsableToken(t, t2) =>
                   \A up1, up2 \in BOOLEAN : GetMeResponse(t2, up1, up2).status = 200

\* a token has been logged out while another token of the same user is live
C3_Witness ==
    \E t, t2 \in issued : t.jti \in loggedOut /\ OtherUsableToken(t, t2) /\ t2.type = "refresh"

\* C4 (as claimed): is_user_token_blacklisted(user, iat) is true exactly when a
\* marker is stored for the user and iat is earlier than it.
C4_Original ==
    \A u \in Uuids, iat \in 0..MaxTime, up \in BOOLEAN :
        is_user_token_blacklisted(u, iat, up)
            <=> (u \in DOMAIN userBlacklist /\ iat < userBlacklist[u].time)

\* C4 (amended): the marker of a user is stored exactly from a successful
\* logout-all until seven days later and holds the time of that call;
\* is_user_token_blacklisted(user, iat) is true exactly when its cache read
\* succeeds, the marker is stored and iat is earlier than it.  So a token whose
\* iat is the marker's time or later is never rejected by this check.
C4_WatermarkCheck ==
    \A u \in Uuids :
        /\ u \in DOMAIN userBlacklist <=> WatermarkStored(u)
        /\ u \in DOMAIN userBlacklist => userBlacklist[u].time = lastLogoutAll[u]
        /\ \A iat \in 0..MaxTime, up \in BOOLEAN :
              is_user_token_blacklisted(u, iat, up)
                  <=> (up /\ WatermarkStored(u) /\ iat < lastLogoutAll[u])

\* a user with a stored marker holds a token issued before it and one issued
\* at the marker's time
C4_Witness ==
    \E t, t2 \in issued :
        /\ t.sub = t2.sub /\ WatermarkStored(t.sub)
        /\ t.iat < lastLogoutAll[t.sub]
        /\ t2.iat = lastLogoutAll[t.sub]

\* C5 (as claimed): resend_verification_email and forgot_password answer an
\* address that has an account exactly as they answer one that has none,
\* whether the account is verified or not and whether the mail goes out or not.
C5_UniformResponse ==
    \A e \in Emails, sent \in BOOLEAN :
        /\ ResendVerificationResponse(e, sent) = ResendVerificationResponse(UnknownEmail, sent)
        /\ ForgotPasswordResponse(e, sent) = ForgotPasswordResponse(UnknownEmail, sent)

\* S is one access token and one refresh token, both of user u
PairOf(u, S) ==
    \E a, r \in S :
        /\ S = {a, r}
        /\ a.type = "access" /\ r.type = "refresh"
        /\ a.sub = u /\ r.sub = u
        /\ a.jti # r.jti

\* C6: a login that issues tokens was given the email of an existing user and
\* the password stored for that user, and that user is active and verified; it
\* issues exactly one access token and one refresh token, both with that
\* user's uuid as sub.  (Under SpecUsers only login issues tokens.)
C6_LoginIssuesOnlyToVerifiedActive ==
    [][issued' # issued =>
        /\ \E e \in Emails, p \in Passwords : Login(e, p)
        /\ \A e \in Emails, p \in Passwords :
              Login(e, p) =>
                  LET u == get_user_by_email(e)
                  IN /\ u # 0
                     /\ users[u].password = get_password_hash(p)
                     /\ users[u].is_active
                     /\ users[u].is_verified
                     /\ PairOf(u, issued' \ issued)]_vars

\* a user who registered, was verified and logged in holds tokens, while an
\* unverified or inactive account exists
C6_Witness ==
    /\ \E t \in issued : Exists(t.sub) /\ users[t.sub].role = "user"
    /\ \E u \in Uuids : Exists(u) /\ (~users[u].is_verified \/ ~users[u].is_active)

\* the account `email` belongs to, if `password` is its password, else 0
GoodCredentials(email, password) ==
    LET S == {u \in Uuids : /\ users[u] # NoUser
                            /\ users[u].email = email
                            /\ users[u].password = get_password_hash(password)}
    IN IF S = {} THEN 0 ELSE Min(S)

\* C7 (as claimed): a failed login is answered 401 for bad credentials, 403 for
\* good credentials of an active account whose email is unverified, and 400
\* for good credentials of an inactive account.
C7_Original ==
    \A e \in Emails \cup {UnknownEmail}, p \in Passwords :
        LET u == GoodCredentials(e, p)
        IN /\ u = 0 => LoginResponse(e, p).status = 401
           /\ (u # 0 /\ users[u].is_active /\ ~users[u].is_verified) =>
                  LoginResponse(e, p).status = 403
           /\ (u # 0 /\ ~users[u].is_active) => LoginResponse(e, p).status = 400

\* C7 (amended): a failed login is answered 401 (InvalidCredentials) for bad
\* credentials, 403 (InactiveUser) for good credentials of an inactive
\* account, verified or not, and 403 (EmailNotVerified) for good credentials
\* of an active account whose email is unverified.
C7_LoginFailures ==
    \A e \in Emails \cup {UnknownEmail}, p \in Passwords :
        LET u == GoodCredentials(e, p)
        IN /\ u = 0 => LoginResponse(e, p) = InvalidCredentialsException
           /\ (u # 0 /\ users[u].is_active /\ ~users[u].is_verified) =>
                  LoginResponse(e, p) = EmailNotVerifiedException
           /\ (u # 0 /\ ~users[u].is_active) => LoginResponse(e, p) = InactiveUserException

\* an account whose credentials are known is inactive and unverified
C7_Witness ==
    \E u \in Uuids, e \in Emails, p \in Passwords :
        /\ GoodCredentials(e, p) = u
        /\ Exists(u) /\ ~users[u].is_active /\ ~users[u].is_verified

\* C8: login answers a known email with a wrong password exactly as it answers
\* an unknown email, with InvalidCredentials (401, "Invalid email or
\* password"), whatever the known account's is_active and is_verified are.
C8_SameErrorForUnknownAndWrongPassword ==
    \A e \in Emails, p \in Passwords :
        (get_user_by_email(e) # 0 /\ GoodCredentials(e, p) = 0) =>
            /\ LoginResponse(e, p) = LoginResponse(UnknownEmail, p)
            /\ LoginResponse(e, p) = InvalidCredentialsException

\* accounts in three of the flag combinations exist at once
C8_Witness ==
    \E u, v \in Uuids :
        /\ Exists(u) /\ ~users[u].is_active
        /\ Exists(v) /\ users[v].is_active /\ ~users[v].is_verified

\* no existing row changes its role and every new row has role "user"
RolesKept ==
    \A u \in Uuids :
        /\ (users[u] # NoUser /\ users'[u] # NoUser) => users'[u].role = users[u].role
        /\ (users[u] = NoUser /\ users'[u] # NoUser) => users'[u].role = "user"

\* the tokens that do not pass get_admin_user
NonAdminBearers == {t \in Bearers : get_admin_user(t, TRUE, TRUE).err.status # 200}

\* the rows of the users table the step wrote
ChangedRows == {u \in Uuids : users'[u] # users[u]}

\* the step is an operation a non-admin actor invoked that wrote to the users
\* table (a call that is refused leaves every variable as it was)
NonAdminStep ==
    \/ nextUuid' # nextUuid /\ \E body \in RegisterBodies : Register(body)
    \/ \E token \in VerificationTokens : VerifyEmail(token)
    \/ \E e \in Emails, p \in Passwords : Login(e, p)
    \/ \E t \in NonAdminBearers :
          \/ \E u \in ChangedRows, body \in UpdateBodies : UpdateUser(t, TRUE, TRUE, u, body)
          \/ \E u \in ChangedRows : DeleteUser(t, TRUE, TRUE, u)
          \/ \E q, r \in Passwords : ChangePassword(t, TRUE, TRUE, q, r)
          \/ nextUuid' # nextUuid /\
                \E body \in AdminCreateBodies : AdminCreateUser(t, TRUE, TRUE, body)
          \/ \E u \in ChangedRows, body \in UpdateBodies :
                AdminUpdateUser(t, TRUE, TRUE, u, body)
          \/ \E u \in ChangedRows : AdminDeleteUser(t, TRUE, TRUE, u)
          \/ \E u \in ChangedRows, r \in UserRole : AdminChangeUserRole(t, TRUE, TRUE, u, r)
          \/ \E u \in ChangedRows, b \in BOOLEAN : AdminToggleUserActive(t, TRUE, TRUE, u, b)

\* C9: no operation invoked by a non-admin actor (register, verify_email,
\* login, update_user, delete_user, change_password, or an admin endpoint
\* called with a token that is not an active admin's) creates a user whose
\* role is not "user" or changes the role of a user; register stores role
\* "user" whatever role the body carries.
C9_NoSelfEscalation == [][users' = users \/ RolesKept \/ ~NonAdminStep]_vars

\* a registered, verified, active user of role "user" holds an access token
\* with which the endpoints can be called
C9_Witness ==
    \E t \in issued :
        /\ t.type = "access" /\ Exists(t.sub) /\ users[t.sub].role = "user"
        /\ users[t.sub].is_active /\ users[t.sub].is_verified

\* the email, or else the username, of the body belongs to an existing row
EmailTaken(body) == \E u \in Uuids : users[u] # NoUser /\ users[u].email = body.email
UsernameTaken(body) == \E u \in Uuids : users[u] # NoUser /\ users[u].username = body.username

\* C10: register with an email an existing user has fails with DuplicateEmail
\* (400); with a fresh email and a username an existing user has it fails with
\* DuplicateUsername (400); in both cases the user rows are unchanged.
C10_DuplicateRegistration ==
    /\ [](\A body \in RegisterBodies :
            /\ EmailTaken(body) => RegisterResponse(body) = DuplicateEmailException
            /\ (~EmailTaken(body) /\ UsernameTaken(body)) =>
                   RegisterResponse(body) = DuplicateUsernameException)
    /\ [][users' # users =>
            \A body \in RegisterBodies :
                (EmailTaken(body) \/ UsernameTaken(body)) => ~Register(body)]_vars

\* after a registration, one body collides on the email and another on the
\* username alone
C10_Witness ==
    /\ nextUuid > 2
    /\ \E body \in RegisterBodies : EmailTaken(body)
    /\ \E body \in RegisterBodies : ~EmailTaken(body) /\ UsernameTaken(body)

RowCreated(u) == users[u] = NoUser /\ users'[u] # NoUser
BecomesVerified(u) ==
    /\ users[u] # NoUser /\ ~users[u].is_verified
    /\ users'[u] # NoUser /\ users'[u].is_verified

\* C12: a user created by register is unverified; while a user is unverified,
\* login with the correct password fails with 403; a user becomes verified
\* only by a verify_email call with a token scoped to that user's email, and
\* from then on login with the correct password succeeds with 200 (as long as
\* the account is active).
C12_UnverifiedUntilVerifyEmail ==
    /\ [](\A e \in Emails, p \in Passwords :
            LET u == GoodCredentials(e, p)
            IN u # 0 =>
                 /\ ~users[u].is_verified => LoginResponse(e, p).status = 403
                 /\ (users[u].is_verified /\ users[u].is_active) =>
                        LoginResponse(e, p).status = 200)
    /\ [][users' = users \/
            \A u \in Uuids :
                /\ (RowCreated(u) /\ \E body \in RegisterBodies : Register(body)) =>
                       ~users'[u].is_verified
                /\ BecomesVerified(u) =>
                       VerifyEmail([valid |-> TRUE, email |-> users[u].email])]_vars

\* a registered user has been verified and has logged in
C12_Witness ==
    \E t \in issued :
        /\ t.type = "refresh" /\ t.sub # 1 /\ Exists(t.sub)
        /\ users[t.sub].is_verified /\ users[t.sub].is_active

\* C13: a verify_email call for an already verified user fails with
\* EmailAlreadyVerified (400), a call with an invalid token fails with 400 and
\* a call whose token names an unknown email fails with 404; none of the three
\* changes a user row, so verify_email takes effect at most once per user.
C13_VerifyEmailOnce ==
    /\ [](\A token \in VerificationTokens :
            LET email == verify_verification_token(token)
                user == get_user_by_email(email)
            IN /\ email = "" => VerifyEmailResponse(token).status = 400
               /\ (email # "" /\ user = 0) => VerifyEmailResponse(token).status = 404
               /\ (email # "" /\ user # 0 /\ users[user].is_verified) =>
                      VerifyEmailResponse(token) = EmailAlreadyVerifiedException)
    /\ [][users' = users \/
            \A token \in VerificationTokens :
                LET email == verify_verification_token(token)
                    user == get_user_by_email(email)
                IN (email = "" \/ user = 0 \/ users[user].is_verified) =>
                       ~VerifyEmail(token)]_vars

\* a user has been verified by verify_email, so that a second call with the
\* same token meets a verified user
C13_Witness ==
    \E u \in Uuids :
        /\ u # 1 /\ Exists(u) /\ users[u].is_verified
        /\ VerifyEmailResponse([valid |-> TRUE, email |-> users[u].email])
               = EmailAlreadyVerifiedException

\* C14 (as claimed): once reset_password has succeeded with token K, a later
\* reset_password call presenting K within its hour does not change the
\* user's password: a call that would store another password is refused.
C14_ResetTokenSingleUse ==
    \A K \in usedReset, p \in Passwords :
        LET u == get_user_by_email(verify_password_reset_token(K))
        IN (u # 0 /\ users[u].password # get_password_hash(p)) =>
               ResetPasswordResponse(K).status # 200

\* C15: when reset_password succeeds for an active, verified user with a new
\* password different from the old one, login with the new password succeeds
\* afterwards and login with any other password, the old one included, fails
\* with 401.
C15_LoginAfterReset ==
    [][usedReset' = usedReset \/
        \A K \in ResetTokens, p \in Passwords :
            (ResetPasswordResponse(K).status = 200 /\ ResetPassword(K, p)) =>
                LET e == verify_password_reset_token(K)
                    u == get_user_by_email(e)
                IN (/\ users[u].is_active /\ users[u].is_verified
                    /\ users[u].password # get_password_hash(p)) =>
                       /\ (LoginResponse(e, p).status = 200)'
                       /\ \A q \in Passwords \ {p} : (LoginResponse(e, q).status = 401)']_vars

\* a reset token has been used for an active, verified user who logged in
\* afterwards with a password that is not the one the account started with
C15_Witness ==
    \E K \in usedReset, t \in issued :
        LET u == get_user_by_email(verify_password_reset_token(K))
        IN /\ u # 0 /\ t.sub = u
           /\ users[u].is_active /\ users[u].is_verified
           /\ users[u].password = get_password_hash("pw87654321")

\* C16: logout and logout-all answer 200 only if the revocation entry was
\* written: a call answered 200 has stored the token's entry, or the user's
\* marker, and the entries of earlier successful calls are still stored while
\* they matter; a call of an authenticated caller whose cache write fails is
\* answered 503 and leaves the cache as it was.
C16_LogoutReportsWrite ==
    /\ \A t \in issued : t.jti \in loggedOut => t.jti \in DOMAIN tokenBlacklist
    /\ \A u \in Uuids : WatermarkStored(u) => u \in DOMAIN userBlacklist
    /\ \A t \in Presentable, up1, up2, wr \in BOOLEAN :
          /\ LogoutResponse(t, up1, up2, wr).status = 200 =>
                t.jti \in DOMAIN LogoutWrite(t, wr)
          /\ LogoutAllResponse(t, up1, up2, wr).status = 200 =>
                /\ t.sub \in DOMAIN LogoutAllWrite(t, wr)
                /\ LogoutAllWrite(t, wr)[t.sub].time = now
          /\ (get_current_active_user(t, up1, up2).err.status = 200 /\ ~wr) =>
                /\ LogoutResponse(t, up1, up2, wr) = RedisUnavailableException
                /\ LogoutAllResponse(t, up1, up2, wr) = RedisUnavailableException
                /\ RedisUnavailableException.status = 503
                /\ LogoutWrite(t, wr) = tokenBlacklist
                /\ LogoutAllWrite(t, wr) = userBlacklist

\* a logged-out token and a logout-all marker are in the cache at once
C16_Witness ==
    \E t \in issued :
        /\ t.jti \in loggedOut /\ t.jti \in DOMAIN tokenBlacklist
        /\ \E u \in Uuids : WatermarkStored(u) /\ u \in DOMAIN userBlacklist

\* C17: when the cache read fails, is_token_blacklisted and
\* is_user_token_blacklisted answer "not blacklisted", so an unexpired token of
\* an existing, active user passes get_current_user and an authenticated
\* request carrying it is answered 200, also when the token is blacklisted or
\* was issued before the user's marker.
C17_FailOpenReads ==
    /\ \A t \in Presentable : ~is_token_blacklisted(t.jti, FALSE)
    /\ \A u \in Uuids, iat \in 0..MaxTime : ~is_user_token_blacklisted(u, iat, FALSE)
    /\ \A t \in issued :
          Exists(t.sub) =>
              /\ get_current_user(t, FALSE, FALSE).err.status = 200
              /\ users[t.sub].is_active => GetMeResponse(t, FALSE, FALSE).status = 200

\* a blacklisted token and a token under a stored marker are both unexpired
C17_Witness ==
    /\ \E t \in issued : t.jti \in DOMAIN tokenBlacklist /\ is_token_blacklisted(t.jti, TRUE)
    /\ \E t \in issued : is_user_token_blacklisted(t.sub, t.iat, TRUE)

\* C19: a per-token blacklist entry written by logout or by a refresh rotation
\* expires exactly when its token does: the TTL is exp - now and never
\* negative, every stored entry belongs to an unexpired token and is due at
\* that token's exp, and an entry stays stored for as long as its token is
\* unexpired.
C19_EntryExpiresWithToken ==
    /\ [](/\ \A t \in Presentable : RemainingLifetime(t) >= 0
          /\ \A t \in issued : RemainingLifetime(t) = t.exp - now
          /\ \A j \in DOMAIN tokenBlacklist :
                \E t \in issued : t.jti = j /\ tokenBlacklist[j] = t.exp /\ now < t.exp)
    /\ [][\A j \in DOMAIN tokenBlacklist :
              (\E t \in issued' : t.jti = j) => j \in DOMAIN tokenBlacklist']_vars

\* the cache holds the entry of a logged-out access token and that of a rotated
\* refresh token, which are due at different times
C19_Witness ==
    \E t, t2 \in issued :
        /\ t.type = "access" /\ t.jti \in loggedOut /\ t.jti \in DOMAIN tokenBlacklist
        /\ t2.type = "refresh" /\ t2.jti \in rotated /\ t2.jti \in DOMAIN tokenBlacklist
        /\ tokenBlacklist[t.jti] # tokenBlacklist[t2.jti]

\* C18 (as claimed): every refresh call that does not return a new pair is
\* answered 401, whatever the reason.
C18_Original ==
    \A t \in Presentable, rd \in BOOLEAN : RefreshResponse(t, rd).status \in {200, 401}

\* the refresh token t is unexpired and the blacklist check lets it through
PassesTokenChecks(t, rd) ==
    Decodes(t) /\ t.type = "refresh" /\ ~is_token_blacklisted(t.jti, rd)

\* C18 (amended): a refresh call is answered 401 when its token is undecodable
\* or expired, is not a refresh token or is found blacklisted; a token that
\* passes these checks is answered 404 (UserNotFound) when its user no longer
\* exists, 403 (InactiveUser) when its user is deactivated, and a new pair
\* otherwise.
C18_RefreshFailures ==
    \A t \in Presentable, rd \in BOOLEAN :
        LET status == RefreshResponse(t, rd).status
        IN /\ ~PassesTokenChecks(t, rd) => status = 401
           /\ PassesTokenChecks(t, rd) =>
                /\ ~Exists(t.sub) => status = 404
                /\ (Exists(t.sub) /\ ~users[t.sub].is_active) => status = 403
                /\ (Exists(t.sub) /\ users[t.sub].is_active) => status = 200

\* unexpired refresh tokens of a deleted user and of a deactivated user, next
\* to a blacklisted one
C18_Witness ==
    /\ \E t \in issued : PassesTokenChecks(t, TRUE) /\ ~Exists(t.sub)
    /\ \E t \in issued :
          PassesTokenChecks(t, TRUE) /\ Exists(t.sub) /\ ~users[t.sub].is_active

\* C20 (as claimed): for every configured access-token lifetime, the marker of
\* a successful logout-all stays stored for as long as a token of the user
\* issued before it is unexpired, so such a token is never accepted again.
C20_WatermarkOutlivesTokens ==
    \A t \in issued :
        (lastLogoutAll[t.sub] # 0 /\ t.iat < lastLogoutAll[t.sub]) =>
            /\ t.sub \in DOMAIN userBlacklist
            /\ is_user_token_blacklisted(t.sub, t.iat, TRUE)
            /\ GetMeResponse(t, TRUE, TRUE).status = 401

\* C21: two concurrent refresh calls presenting the same refresh token can
\* both succeed.  Nothing in the refresh path prevents it: a call that has
\* passed its blacklist check is answered with a new pair whenever its user
\* exists and is active, also when the token has been blacklisted since.
C21_ConcurrentRefreshBothSucceed ==
    \A req \in Requests :
        (req.op = "refresh" /\ req.pc = "checked") =>
            (RefreshFinishResponse(req).status = 200
                <=> (Exists(req.uuid) /\ users[req.uuid].is_active))

\* two calls that presented one token have both been answered with a pair, and
\* the first answer's blacklist write went through
C21_Witness ==
    \E req \in Requests :
        /\ req.op = "refresh" /\ req.pc = "answered"
        /\ CopiesIn(req, inflight) = 2
        /\ req.data.jti \in DOMAIN tokenBlacklist
        /\ pairs = 3

\* no logout-all call of user u is between its timestamp and its cache write
LogoutAllQuiet(u) == \A req \in Requests : ~(req.op = "logout_all" /\ req.uuid = u)

\* C22 (as claimed): once the concurrent logout-all calls of a user have all
\* completed, the stored marker is not lower than the timestamp any of them
\* computed, so a token of the user issued before one of those timestamps is
\* rejected while the marker is stored.
C22_WatermarkNotLowered ==
    \A u \in DOMAIN userBlacklist :
        LogoutAllQuiet(u) =>
            /\ userBlacklist[u].time >= lastLogoutAll[u]
            /\ \A t \in issued :
                  (t.sub = u /\ t.iat < lastLogoutAll[u]) =>
                      GetMeResponse(t, TRUE, TRUE).status = 401

\* C23 (as claimed): update_book and delete_book succeed exactly when the
\* authenticated caller owns the book or is an admin; every other caller is
\* answered 403.
C23_OwnerOrAdmin ==
    \A t \in Bearers, b \in BookIds :
        (get_current_active_user(t, TRUE, TRUE).err.status = 200 /\ get_book(b) # 0) =>
            LET allowed == \/ books[b].user_id = t.sub
                           \/ users[t.sub].role = "admin"
            IN /\ UpdateBookResponse(t, TRUE, TRUE, b).status = (IF allowed THEN 200 ELSE 403)
               /\ DeleteBookResponse(t, TRUE, TRUE, b).status = (IF allowed THEN 204 ELSE 403)

\* C24 (as claimed): there is at most one review row per (user, book) pair,
\* also under concurrent create_review calls, and a create_review for a pair
\* that has a review is answered 400.
C24_OneReviewPerUserAndBook ==
    /\ \A r \in BagToSet(reviews) : CopiesIn(r, reviews) <= 1
    /\ \A t \in Bearers, b \in BookIds :
          (/\ get_current_active_user(t, TRUE, TRUE).err.status = 200
           /\ BagIn([user_id |-> t.sub, book_id |-> b], reviews)) =>
              CreateReviewResponse(t, TRUE, TRUE, b) = DuplicateReviewException

\* C25 (as claimed): whenever a refresh call returns a new pair, the jti of the
\* presented token is in the blacklist from that moment, also when the cache
\* write failed during the call.
C25_RotatedTokenStored ==
    \A t \in issued : t.jti \in rotated => t.jti \in DOMAIN tokenBlacklist

\* C26: a refresh call that fails writes nothing to the revocation cache and
\* issues no token; the presented token is blacklisted only by a call whose
\* user lookup and is_active check have passed.
C26_FailedRefreshWritesNothing ==
    \A t \in Presentable, rd, wr \in BOOLEAN :
        /\ RefreshResponse(t, rd).status # 200 =>
              /\ RefreshWrite(t, rd, wr) = tokenBlacklist
              /\ RefreshIssued(t, rd) = issued
        /\ RefreshWrite(t, rd, wr) # tokenBlacklist =>
              Exists(t.sub) /\ users[t.sub].is_active

\* an access token, a blacklisted refresh token and the unrevoked refresh
\* token of a deactivated user are all unexpired
C26_Witness ==
    /\ \E t \in issued : t.type = "access"
    /\ \E t \in issued : t.type = "refresh" /\ t.jti \in DOMAIN tokenBlacklist
    /\ \E t \in issued :
          /\ t.type = "refresh" /\ t.jti \notin DOMAIN tokenBlacklist
          /\ Exists(t.sub) /\ ~users[t.sub].is_active

\* C27 (as claimed): a validly signed, unexpired token whose type is "refresh",
\* presented as the Bearer credential of an authenticated request, is rejected
\* with 401 by get_current_user.
C27_RefreshTokenNotABearer ==
    \A t \in issued :
        t.type = "refresh" =>
            \A up1, up2 \in BOOLEAN : get_current_user(t, up1, up2).err.status = 401

\* C28: while a user's is_active flag is false, login, refresh and every
\* authenticated request with any token of that user fail, and no step issues
\* a token to that user.
C28_InactiveUserLockedOut ==
    /\ [](\A u \in Uuids :
             (Exists(u) /\ ~users[u].is_active) =>
                 /\ \A p \in Passwords : LoginResponse(users[u].email, p).status # 200
                 /\ \A t \in issued :
                       t.sub = u =>
                           /\ \A rd \in BOOLEAN : RefreshResponse(t, rd).status # 200
                           /\ \A up1, up2 \in BOOLEAN :
                                 /\ get_current_active_user(t, up1, up2).err.status # 200
                                 /\ get_admin_user(t, up1, up2).err.status # 200
                                 /\ GetMeResponse(t, up1, up2).status # 200)
    /\ [][issued' = issued \/
          \A t \in issued' \ issued : Exists(t.sub) /\ users[t.sub].is_active]_vars

\* a deactivated user knows the password and holds an unexpired, unrevoked
\* access token and refresh token
C28_Witness ==
    \E t, t2 \in issued :
        /\ t.sub = t2.sub /\ t.type = "access" /\ t2.type = "refresh"
        /\ Exists(t.sub) /\ ~users[t.sub].is_active
        /\ verify_password("pw12345678", users[t.sub].password)
        /\ t.jti \notin DOMAIN tokenBlacklist /\ t2.jti \notin DOMAIN tokenBlacklist

\* C29: reset_password and change_password leave the revocation cache and the
\* issued tokens as they were: every token that was accepted before the
\* password changed, as a Bearer credential or by refresh, is accepted after.
C29_PasswordChangeKeepsTokens ==
    [][users' = users \/
       /\ CacheUnchanged
       /\ issued' = issued
       /\ \A t \in issued :
             /\ GetMeResponse(t, TRUE, TRUE).status = 200
                   => (GetMeResponse(t, TRUE, TRUE).status = 200)'
             /\ RefreshResponse(t, TRUE).status = 200
                   => (RefreshResponse(t, TRUE).status = 200)']_vars

\* both users have a new password, one by reset_password and the other by
\* change_password, and both still hold a token that is accepted
C29_Witness ==
    /\ usedReset = {[valid |-> TRUE, email |-> "alice@example.com"]}
    /\ \A u \in Uuids : users[u].password = get_password_hash("pw87654321")
    /\ \A u \in Uuids : \E t \in issued :
          t.sub = u /\ t.iat < now /\ GetMeResponse(t, TRUE, TRUE).status = 200

\* is_active of the rows that exist before and after the step is unchanged
ActiveKept ==
    \A u \in Uuids :
        (users[u] # NoUser /\ users'[u] # NoUser) => users'[u].is_active = users[u].is_active

\* C30 (as claimed): no operation invoked by a non-admin actor changes the
\* is_active flag of any user, the actor's own included.
C30_OnlyAdminChangesIsActive == [][users' = users \/ ActiveKept \/ ~NonAdminStep]_vars

====
